---- MODULE Spec2Model ----
(***************************************************************************)
(* A model of the statsd client: the Client facade (statsd.go), the        *)
(* options and the Tags type (options.go), and the transport (conn) the    *)
(* facade drives.  The transport's own file is not part of the sources;    *)
(* its operations (newConn, metric, gauge, unique, flush, handleError and  *)
(* the periodic flush task) follow sections 4.2, 5 and 6 of the            *)
(* specification.                                                          *)
(*                                                                         *)
(* Strings are TLA+ strings; a line is the text of one metric without its  *)
(* separator, the buffer and a packet are sequences of lines, and a line   *)
(* of length n takes n + 1 bytes (the line and its newline separator).     *)
(* Rates are in percent: 100 is the sample rate 1.                         *)
(***************************************************************************)
EXTENDS Integers, Sequences, FiniteSets, TLC

VARIABLES
    clients,    \* the Clients created so far (New first, then the clones)
    conns,      \* the transports (conn objects) created so far
    tagHeap,    \* the Tags objects the clients' tags fields point to
    packets,    \* every packet written to a socket, in order
    handed,     \* the lines handed to an open transport, in call order
    errs,       \* number of calls of the configured error handler
    closeCalls, \* number of calls of Close() on a socket
    newErr,     \* New returned a non-nil error
    newOpts,    \* the options New was called with
    panic,      \* "none", or the panic that ended the program
    last,       \* the last operation called: its name, whether it returned
                \* before reaching the transport, the packets it wrote
    mu,         \* conn.mu: the goroutine holding the lock, "" when it is free
    pc          \* where each goroutine is in the call it is making

vars == <<clients, conns, tagHeap, packets, handed, errs, closeCalls, newErr, newOpts,
          panic, last, mu, pc>>

----------------------------------------------------------------------------
(* Bounds of the model: MaxWork bounds the number of clones plus the number *)
(* of lines handed to the transport, MaxCloses the calls of Close that      *)
(* reach the socket.                                                        *)

MaxWork == 3
MaxCloses == 2

(* Program constants.                                                      *)

InfluxDB == 1
Datadog == 2
DefaultMaxPacketSize == 1440
DefaultFlushPeriod == 100
DefaultRate == 100

(* Inputs.                                                                 *)

PacketSizes == {12}
FlushPeriods == {0}
SampleRates == {50}
Buckets == {"a"}
Values == {1}
UniqueValues == {"u"}
MetricTagLists == {<<>>, <<"k", "m">>}
RandFloats == {25, 75}
NilTags == 0
NilConn == 0

----------------------------------------------------------------------------
(* Tags: an insertion-ordered key/value collection.                        *)

EmptyMap == [k \in {} |-> ""]

MapSet(m, key, v) == [k \in (DOMAIN m) \cup {key} |-> IF k = key THEN v ELSE m[k]]

emptyTags == [kvs |-> EmptyMap, keys |-> <<>>]

RECURSIVE newTagsLoop(_, _, _)
newTagsLoop(tags, i, t) ==
    IF i >= Len(tags) \div 2 THEN t
    ELSE newTagsLoop(tags, i + 1,
            [kvs |-> MapSet(t.kvs, tags[2 * i + 1], tags[2 * i + 2]),
             keys |-> Append(t.keys, tags[2 * i + 1])])

(* newTags panics on an odd number of arguments; OddTags is that case.     *)
OddTags(tags) == Len(tags) % 2 = 1

newTags(tags) == IF Len(tags) = 0 THEN emptyTags ELSE newTagsLoop(tags, 0, emptyTags)

RECURSIVE appendLoop(_, _, _)
appendLoop(this, that, i) ==
    IF i > Len(that.keys) THEN this
    ELSE LET k == that.keys[i] IN
         IF k \in DOMAIN this.kvs
         THEN appendLoop(this, that, i + 1)
         ELSE appendLoop([kvs |-> MapSet(this.kvs, k, that.kvs[k]),
                          keys |-> Append(this.keys, k)], that, i + 1)

(* append giving every key of that the value it has in that.               *)
RECURSIVE replaceLoop(_, _, _)
replaceLoop(this, that, i) ==
    IF i > Len(that.keys) THEN this
    ELSE LET k == that.keys[i] IN
         replaceLoop([kvs |-> MapSet(this.kvs, k, that.kvs[k]),
                      keys |-> IF k \in DOMAIN this.kvs THEN this.keys
                               ELSE Append(this.keys, k)], that, i + 1)

TagsAppendReplacing(this, that) == replaceLoop(this, that, 1)

TagsAppend(this, that) == appendLoop(this, that, 1)

numTags(this) == Len(this.keys)

RECURSIVE cloneLoop(_, _, _)
cloneLoop(this, i, t) ==
    IF i > Len(this.keys) THEN t
    ELSE cloneLoop(this, i + 1,
            [kvs |-> MapSet(t.kvs, this.keys[i], this.kvs[this.keys[i]]),
             keys |-> Append(t.keys, this.keys[i])])

TagsClone(this) == cloneLoop(this, 1, emptyTags)

RECURSIVE influxLoop(_, _)
influxLoop(this, i) ==
    IF i > Len(this.keys) THEN ""
    ELSE "," \o this.keys[i] \o "=" \o this.kvs[this.keys[i]] \o influxLoop(this, i + 1)

RECURSIVE datadogLoop(_, _)
datadogLoop(this, i) ==
    IF i > Len(this.keys) THEN ""
    ELSE this.keys[i] \o ":" \o this.kvs[this.keys[i]]
         \o (IF i < Len(this.keys) THEN "," ELSE "") \o datadogLoop(this, i + 1)

(* format without the TrimSuffix of the Datadog branch.                    *)
RECURSIVE datadogCommaLoop(_, _)
datadogCommaLoop(this, i) ==
    IF i > Len(this.keys) THEN ""
    ELSE this.keys[i] \o ":" \o this.kvs[this.keys[i]] \o "," \o datadogCommaLoop(this, i + 1)

TagsFormattedUntrimmed(this, tf) ==
    IF numTags(this) = 0 THEN ""
    ELSE IF tf = InfluxDB THEN influxLoop(this, 1)
    ELSE IF tf = Datadog THEN "|#" \o datadogCommaLoop(this, 1)
    ELSE ""

TagsFormatted(this, tf) ==
    IF numTags(this) = 0 THEN ""
    ELSE IF tf = InfluxDB THEN influxLoop(this, 1)
    ELSE IF tf = Datadog THEN "|#" \o datadogLoop(this, 1)
    ELSE ""

----------------------------------------------------------------------------
(* Options: each is a mutation of the configuration.  An option is a       *)
(* record naming its constructor and its argument.                         *)

Opt(kind, s, n, b, t) == [kind |-> kind, s |-> s, n |-> n, b |-> b, t |-> t]

Address(addr) == Opt("Address", addr, 0, FALSE, <<>>)
ErrorHandler(h) == Opt("ErrorHandler", h, 0, FALSE, <<>>)
FlushPeriod(p) == Opt("FlushPeriod", "", p, FALSE, <<>>)
MaxPacketSize(n) == Opt("MaxPacketSize", "", n, FALSE, <<>>)
Network(network) == Opt("Network", network, 0, FALSE, <<>>)
Mute(b) == Opt("Mute", "", 0, b, <<>>)
SampleRate(rate) == Opt("SampleRate", "", rate, FALSE, <<>>)
Prefix(p) == Opt("Prefix", p, 0, FALSE, <<>>)
TagsFormat(tf) == Opt("TagsFormat", "", tf, FALSE, <<>>)
CommonTags(tags) == Opt("CommonTags", "", 0, FALSE, tags)

(* strings.TrimSuffix(p, "."), on the prefixes the model uses.             *)
TrimSuffixDot(p) == IF p = "q." THEN "q" ELSE p

(* The zero value of connConfig, and the configuration New starts from.    *)
ZeroConnConfig ==
    [Addr |-> "", ErrorHandler |-> "", FlushPeriod |-> 0, MaxPacketSize |-> 0,
     Network |-> "", TagFormat |-> 0]

(* New's defaults without the flush period.                                *)
DefaultConnConfigNoPeriod ==
    [Addr |-> ":8125", ErrorHandler |-> "", FlushPeriod |-> 0,
     MaxPacketSize |-> DefaultMaxPacketSize, Network |-> "udp", TagFormat |-> 0]

DefaultConnConfig ==
    [Addr |-> ":8125", ErrorHandler |-> "", FlushPeriod |-> DefaultFlushPeriod,
     MaxPacketSize |-> DefaultMaxPacketSize, Network |-> "udp", TagFormat |-> 0]

(* Applying one option to st = [conf, heap, panic]: conf is the config,    *)
(* heap the Tags objects (conf.Client.Tags points into it).                *)
OptionEffect(o, st) ==
    CASE o.kind = "Address" -> [st EXCEPT !.conf.Conn.Addr = o.s]
      [] o.kind = "ErrorHandler" -> [st EXCEPT !.conf.Conn.ErrorHandler = o.s]
      [] o.kind = "FlushPeriod" -> [st EXCEPT !.conf.Conn.FlushPeriod = o.n]
      [] o.kind = "MaxPacketSize" -> [st EXCEPT !.conf.Conn.MaxPacketSize = o.n]
      [] o.kind = "Network" -> [st EXCEPT !.conf.Conn.Network = o.s]
      [] o.kind = "Mute" -> [st EXCEPT !.conf.Client.Muted = o.b]
      [] o.kind = "SampleRate" -> [st EXCEPT !.conf.Client.Rate = o.n]
      [] o.kind = "Prefix" ->
           [st EXCEPT !.conf.Client.Prefix = @ \o TrimSuffixDot(o.s) \o "."]
      [] o.kind = "TagsFormat" -> [st EXCEPT !.conf.Conn.TagFormat = o.n]
      [] o.kind = "CommonTags" ->
           IF Len(o.t) = 0 THEN st
           ELSE IF st.conf.Client.Tags = NilTags
           THEN [st EXCEPT !.panic = "nil pointer dereference"]
           ELSE [st EXCEPT !.heap[st.conf.Client.Tags] = TagsAppend(@, newTags(o.t))]

(* MaxPacketSize assigning the flush period instead of the packet size.    *)
ApplyOptionSizeToPeriod(o, st) ==
    IF st.panic # "none" THEN st
    ELSE IF o.kind = "MaxPacketSize" THEN [st EXCEPT !.conf.Conn.FlushPeriod = o.n]
    ELSE OptionEffect(o, st)

(* FlushPeriod assigning nothing.                                          *)
ApplyOptionNoPeriod(o, st) ==
    IF st.panic # "none" THEN st
    ELSE IF o.kind = "FlushPeriod" THEN st
    ELSE OptionEffect(o, st)

(* An option applied after a panic is never reached.                       *)
ApplyOption(o, st) == IF st.panic # "none" THEN st ELSE OptionEffect(o, st)

RECURSIVE ApplyOptions(_, _, _)
ApplyOptions(opts, i, st) ==
    IF i > Len(opts) THEN st ELSE ApplyOptions(opts, i + 1, ApplyOption(opts[i], st))

(* CommonTags(tags...) panics when built from an odd number of strings.    *)
OptsPanic(opts) == \E i \in DOMAIN opts : opts[i].kind = "CommonTags" /\ OddTags(opts[i].t)

----------------------------------------------------------------------------
(* The transport.  A conn owns the socket w ("nil": never opened, "open",  *)
(* "closed"), the buffer of pending lines, the closed flag and the         *)
(* periodic flush task (ticker: the task exists and has not ended).        *)

(* Size in bytes of a sequence of lines, each with its separator.          *)
RECURSIVE Size(_)
Size(lines) == IF lines = <<>> THEN 0 ELSE Len(Head(lines)) + 1 + Size(Tail(lines))

(* newConn(conf, muted): a muted client opens no socket; a failed dial     *)
(* gives the error back; the periodic task starts when the period is > 0.  *)
newConn(conf, muted, dialOk) ==
    LET c == [addr |-> conf.Addr, errorHandler |-> conf.ErrorHandler,
              flushPeriod |-> conf.FlushPeriod, maxPacketSize |-> conf.MaxPacketSize,
              network |-> conf.Network, tagFormat |-> conf.TagFormat,
              w |-> "nil", buf |-> <<>>, closed |-> FALSE, ticker |-> FALSE]
    IN IF muted THEN [conn |-> c, err |-> FALSE]
       ELSE IF ~dialOk THEN [conn |-> c, err |-> TRUE]
       ELSE [conn |-> [c EXCEPT !.w = "open", !.ticker = conf.FlushPeriod > 0],
             err |-> FALSE]

(* The result of a transport operation: the conn after it, the packets it  *)
(* wrote, the errors it passed to the error handler (handleError) and the  *)
(* lines it took.                                                          *)
Res(cn, pk, er, ln) == [cn |-> cn, pk |-> pk, er |-> er, ln |-> ln]

(* w.Write(packet): on the network if the socket is open, else an error.   *)
connWrite(cn, packet) ==
    IF cn.w = "open" THEN Res(cn, <<packet>>, 0, <<>>) ELSE Res(cn, <<>>, 1, <<>>)

(* flush: write the buffer if it is not empty, then clear it.              *)
connFlush(cn) ==
    IF cn.buf = <<>> THEN Res(cn, <<>>, 0, <<>>)
    ELSE LET r == connWrite(cn, cn.buf) IN Res([cn EXCEPT !.buf = <<>>], r.pk, r.er, <<>>)

(* emit: steps 3 to 5 of the operation; nothing once the conn is closed.   *)
connEmit(cn, line) ==
    IF cn.closed THEN Res(cn, <<>>, 0, <<>>)
    ELSE LET over == cn.buf # <<>> /\ Size(cn.buf) + Len(line) + 1 > cn.maxPacketSize
             f == IF over THEN connFlush(cn) ELSE Res(cn, <<>>, 0, <<>>)
         IN IF Len(line) + 1 > cn.maxPacketSize
            THEN LET r == connWrite(f.cn, <<line>>)
                 IN Res(r.cn, f.pk \o r.pk, f.er + r.er, <<line>>)
            ELSE Res([f.cn EXCEPT !.buf = Append(@, line)], f.pk, f.er, <<line>>)

(* The rate as text, e.g. 50 (percent) is 0.5.                             *)
RateStr(rate) ==
    IF rate % 10 = 0 THEN "0." \o ToString(rate \div 10) ELSE "0." \o ToString(rate)

(* The wire line: <prefix><bucket>:<value>|<type>[|@<rate>][<tags>], the   *)
(* InfluxDB tags right after the bucket.                                   *)
Line(cn, prefix, bucket, value, typ, rate, tags) ==
    prefix \o bucket \o (IF cn.tagFormat = InfluxDB THEN tags ELSE "")
    \o ":" \o value \o "|" \o typ
    \o (IF rate < DefaultRate THEN "|@" \o RateStr(rate) ELSE "")
    \o (IF cn.tagFormat = InfluxDB THEN "" ELSE tags)

connMetric(cn, prefix, bucket, n, typ, rate, tags) ==
    connEmit(cn, Line(cn, prefix, bucket, ToString(n), typ, rate, tags))

connGauge(cn, prefix, bucket, value, tags) ==
    connEmit(cn, Line(cn, prefix, bucket, ToString(value), "g", DefaultRate, tags))

connUnique(cn, prefix, bucket, value, tags) ==
    connEmit(cn, Line(cn, prefix, bucket, value, "s", DefaultRate, tags))

(* w.Close(): closes an open socket; an error on one that is not open.     *)
sockClose(cn) ==
    IF cn.w = "open" THEN Res([cn EXCEPT !.w = "closed"], <<>>, 0, <<>>)
    ELSE Res(cn, <<>>, 1, <<>>)

----------------------------------------------------------------------------
(* The Client facade.                                                      *)

NewOptLists ==
    {<<>>, <<Mute(TRUE)>>}
    \cup {<<Address("h:1"), Network("tcp"), ErrorHandler("h"), MaxPacketSize(n),
             FlushPeriod(p)>> : n \in PacketSizes, p \in FlushPeriods}
    \cup {<<MaxPacketSize(n), TagsFormat(Datadog), CommonTags(<<"k", "v">>), SampleRate(r)>> :
            n \in PacketSizes, r \in SampleRates}

CloneOptLists ==
    {<<Mute(TRUE)>>}
    \cup {<<Prefix("q."), CommonTags(<<"j", "w">>), SampleRate(r)>> : r \in SampleRates}
    \cup {<<Mute(FALSE), MaxPacketSize(n), FlushPeriod(p), TagsFormat(InfluxDB)>> :
            n \in PacketSizes, p \in FlushPeriods}

Work == Len(clients) - 1 + Len(handed)

Last(op, skipped, wrote) == [op |-> op, skipped |-> skipped, wrote |-> wrote]

Panic(msg, op, i) ==
    /\ panic' = msg
    /\ last' = Last(op, FALSE, 0)
    /\ UNCHANGED <<clients, conns, tagHeap, packets, handed, errs, closeCalls, newErr,
                   newOpts, mu, pc>>

(* An operation that returned before reaching the transport.               *)
Skipped(op, i) ==
    /\ last' = Last(op, TRUE, 0)
    /\ UNCHANGED <<clients, conns, tagHeap, packets, handed, errs, closeCalls, newErr,
                   newOpts, panic, mu, pc>>

(* The effect on the state of a transport operation on conn k.             *)
Done(k, r, op, i) ==
    /\ conns' = [conns EXCEPT ![k] = r.cn]
    /\ packets' = packets \o r.pk
    /\ errs' = errs + r.er
    /\ handed' = handed \o r.ln
    /\ last' = Last(op, FALSE, Len(r.pk))
    /\ UNCHANGED <<mu, pc>>

(* New: the client and the conn it returns, with the error of newConn.     *)
NewClient(opts, dialOk) ==
    LET st == ApplyOptions(opts, 1,
                [conf |-> [Conn |-> DefaultConnConfig,
                           Client |-> [Muted |-> FALSE, Rate |-> DefaultRate,
                                       Prefix |-> "", Tags |-> 1]],
                 heap |-> <<emptyTags>>, panic |-> "none"])
        nc == newConn(st.conf.Conn, st.conf.Client.Muted, dialOk)
        c == [conn |-> 1, muted |-> st.conf.Client.Muted, rate |-> 0, prefix |-> "",
              tags |-> NilTags, tagFormat |-> 0]
    IN [conn |-> nc.conn, heap |-> st.heap, err |-> nc.err,
        client |-> IF nc.err THEN [c EXCEPT !.muted = TRUE]
                   ELSE [c EXCEPT !.rate = st.conf.Client.Rate,
                                  !.prefix = st.conf.Client.Prefix,
                                  !.tags = st.conf.Client.Tags,
                                  !.tagFormat = st.conf.Conn.TagFormat]]

New(opts, dialOk) ==
    /\ panic = "none" /\ clients = <<>>
    /\ IF OptsPanic(opts) THEN Panic("odd number of tags", "New", 0)
       ELSE LET n == NewClient(opts, dialOk) IN
            /\ clients' = <<n.client>>
            /\ conns' = <<n.conn>>
            /\ tagHeap' = n.heap
            /\ newErr' = n.err
            /\ newOpts' = opts
            /\ last' = Last("New", FALSE, 0)
            /\ UNCHANGED <<packets, handed, errs, closeCalls, panic, mu, pc>>

(* Clone: st is the configuration after the options, whose Tags still is   *)
(* the parent's Tags object; the clone gets a copy of it.                  *)
CloneConf(c, opts) ==
    ApplyOptions(opts, 1,
        [conf |-> [Conn |-> ZeroConnConfig,
                   Client |-> [Muted |-> FALSE, Rate |-> c.rate, Prefix |-> c.prefix,
                               Tags |-> c.tags]],
         heap |-> tagHeap, panic |-> "none"])

(* The clone taking its muted flag from its own options alone.             *)
CloneClientOwnMute(c, st) ==
    [conn |-> c.conn, muted |-> st.conf.Client.Muted,
     rate |-> st.conf.Client.Rate, prefix |-> st.conf.Client.Prefix,
     tags |-> Len(st.heap) + 1, tagFormat |-> conns[c.conn].tagFormat]

CloneClient(c, st) ==
    [conn |-> c.conn, muted |-> c.muted \/ st.conf.Client.Muted,
     rate |-> st.conf.Client.Rate, prefix |-> st.conf.Client.Prefix,
     tags |-> Len(st.heap) + 1, tagFormat |-> conns[c.conn].tagFormat]

(* Clone opening a conn of its own from the options it was given.          *)
CloneOwnConn(i, opts) ==
    /\ panic = "none" /\ i \in DOMAIN clients
    /\ Work < MaxWork
    /\ LET c == clients[i]
           st == CloneConf(c, opts)
       IN IF OptsPanic(opts) THEN Panic("odd number of tags", "Clone", i)
          ELSE IF c.conn = NilConn \/ st.panic # "none" \/ st.conf.Client.Tags = NilTags
          THEN Panic("nil pointer dereference", "Clone", i)
          ELSE /\ clients' = Append(clients,
                                    [CloneClient(c, st) EXCEPT !.conn = Len(conns) + 1])
               /\ conns' = Append(conns, newConn(st.conf.Conn, c.muted, TRUE).conn)
               /\ tagHeap' = Append(st.heap, TagsClone(st.heap[st.conf.Client.Tags]))
               /\ last' = Last("Clone", FALSE, 0)
               /\ UNCHANGED <<packets, handed, errs, closeCalls, newErr, newOpts, panic,
                              mu, pc>>

Clone(i, opts) ==
    /\ panic = "none" /\ i \in DOMAIN clients
    /\ Work < MaxWork
    /\ LET c == clients[i]
           st == CloneConf(c, opts)
       IN IF OptsPanic(opts) THEN Panic("odd number of tags", "Clone", i)
          ELSE IF c.conn = NilConn \/ st.panic # "none" \/ st.conf.Client.Tags = NilTags
          THEN Panic("nil pointer dereference", "Clone", i)
          ELSE /\ clients' = Append(clients, CloneClient(c, st))
               /\ tagHeap' = Append(st.heap, TagsClone(st.heap[st.conf.Client.Tags]))
               /\ last' = Last("Clone", FALSE, 0)
               /\ UNCHANGED <<conns, packets, handed, errs, closeCalls, newErr, newOpts,
                              panic, mu, pc>>

(* skip, with r the value randFloat() returns; Rand(c) are the values it   *)
(* may return, 0 standing for no call of randFloat() at all.               *)
skip(c, r) == c.muted \/ (c.rate # DefaultRate /\ r > c.rate)

Rand(c) == IF c.muted \/ c.rate = DefaultRate THEN {0} ELSE RandFloats

(* The tags of a metric: the metric's own, then the client's.              *)
MetricTags(c, metricTags) ==
    TagsFormatted(TagsAppend(newTags(metricTags), tagHeap[c.tags]), c.tagFormat)

(* Count flushing right after handing its line over.                       *)
CountUnbuffered(i, bucket, n, metricTags) ==
    /\ panic = "none" /\ i \in DOMAIN clients /\ Work < MaxWork
    /\ LET c == clients[i] IN
       \E r \in Rand(c) :
          IF skip(c, r) THEN Skipped("Count", i)
          ELSE IF OddTags(metricTags) THEN Panic("odd number of tags", "Count", i)
          ELSE LET m == connMetric(conns[c.conn], c.prefix, bucket, n, "c", c.rate,
                                   MetricTags(c, metricTags))
                   f == connFlush(m.cn)
               IN /\ Done(c.conn, Res(f.cn, m.pk \o f.pk, m.er + f.er, m.ln), "Count", i)
                  /\ UNCHANGED <<clients, tagHeap, closeCalls, newErr, newOpts, panic>>

Count(i, bucket, n, metricTags) ==
    /\ panic = "none" /\ i \in DOMAIN clients /\ Work < MaxWork
    /\ LET c == clients[i] IN
       \E r \in Rand(c) :
          IF skip(c, r) THEN Skipped("Count", i)
          ELSE IF OddTags(metricTags) THEN Panic("odd number of tags", "Count", i)
          ELSE /\ Done(c.conn, connMetric(conns[c.conn], c.prefix, bucket, n, "c", c.rate,
                                          MetricTags(c, metricTags)), "Count", i)
               /\ UNCHANGED <<clients, tagHeap, closeCalls, newErr, newOpts, panic>>

Increment(i, bucket, metricTags) == Count(i, bucket, 1, metricTags)

Gauge(i, bucket, value, metricTags) ==
    /\ panic = "none" /\ i \in DOMAIN clients /\ Work < MaxWork
    /\ LET c == clients[i] IN
       \E r \in Rand(c) :
          IF skip(c, r) THEN Skipped("Gauge", i)
          ELSE IF OddTags(metricTags) THEN Panic("odd number of tags", "Gauge", i)
          ELSE /\ Done(c.conn, connGauge(conns[c.conn], c.prefix, bucket, value,
                                         MetricTags(c, metricTags)), "Gauge", i)
               /\ UNCHANGED <<clients, tagHeap, closeCalls, newErr, newOpts, panic>>

Timing(i, bucket, value) ==
    /\ panic = "none" /\ i \in DOMAIN clients /\ Work < MaxWork
    /\ LET c == clients[i] IN
       \E r \in Rand(c) :
          IF skip(c, r) THEN Skipped("Timing", i)
          ELSE /\ Done(c.conn, connMetric(conns[c.conn], c.prefix, bucket, value, "ms", c.rate,
                                          TagsFormatted(tagHeap[c.tags], c.tagFormat)),
                       "Timing", i)
               /\ UNCHANGED <<clients, tagHeap, closeCalls, newErr, newOpts, panic>>

Histogram(i, bucket, value, metricTags) ==
    /\ panic = "none" /\ i \in DOMAIN clients /\ Work < MaxWork
    /\ LET c == clients[i] IN
       \E r \in Rand(c) :
          IF skip(c, r) THEN Skipped("Histogram", i)
          ELSE IF OddTags(metricTags) THEN Panic("odd number of tags", "Histogram", i)
          ELSE /\ Done(c.conn, connMetric(conns[c.conn], c.prefix, bucket, value, "h", c.rate,
                                          MetricTags(c, metricTags)), "Histogram", i)
               /\ UNCHANGED <<clients, tagHeap, closeCalls, newErr, newOpts, panic>>

Unique(i, bucket, value) ==
    /\ panic = "none" /\ i \in DOMAIN clients /\ Work < MaxWork
    /\ LET c == clients[i] IN
       \E r \in Rand(c) :
          IF skip(c, r) THEN Skipped("Unique", i)
          ELSE /\ Done(c.conn, connUnique(conns[c.conn], c.prefix, bucket, value,
                                          TagsFormatted(tagHeap[c.tags], c.tagFormat)),
                       "Unique", i)
               /\ UNCHANGED <<clients, tagHeap, closeCalls, newErr, newOpts, panic>>

(* Flush taking the lock without flushing.                                 *)
FlushNoWrite(i) ==
    /\ panic = "none" /\ i \in DOMAIN clients
    /\ LET c == clients[i] IN
       IF c.muted THEN Skipped("Flush", i)
       ELSE /\ Done(c.conn, Res(conns[c.conn], <<>>, 0, <<>>), "Flush", i)
            /\ UNCHANGED <<clients, tagHeap, closeCalls, newErr, newOpts, panic>>

(* Flush writing the buffer itself, whatever it holds.                     *)
FlushAlwaysWrites(i) ==
    /\ panic = "none" /\ i \in DOMAIN clients
    /\ LET c == clients[i] IN
       IF c.muted THEN Skipped("Flush", i)
       ELSE LET w == connWrite(conns[c.conn], conns[c.conn].buf) IN
            /\ Done(c.conn, Res([w.cn EXCEPT !.buf = <<>>], w.pk, w.er, <<>>), "Flush", i)
            /\ UNCHANGED <<clients, tagHeap, closeCalls, newErr, newOpts, panic>>

(* Flush without its test of c.muted.                                      *)
FlushNoMuteCheck(i) ==
    /\ panic = "none" /\ i \in DOMAIN clients
    /\ LET c == clients[i] IN
       /\ Done(c.conn, connFlush(conns[c.conn]), "Flush", i)
       /\ UNCHANGED <<clients, tagHeap, closeCalls, newErr, newOpts, panic>>

Flush(i) ==
    /\ panic = "none" /\ i \in DOMAIN clients
    /\ LET c == clients[i] IN
       IF c.muted THEN Skipped("Flush", i)
       ELSE /\ Done(c.conn, connFlush(conns[c.conn]), "Flush", i)
            /\ UNCHANGED <<clients, tagHeap, closeCalls, newErr, newOpts, panic>>

(* Close: flush, close the socket, report its error, set closed.           *)
CloseConn(cn) ==
    LET f == connFlush(cn)
        s == sockClose(f.cn)
    IN Res([s.cn EXCEPT !.closed = TRUE], f.pk, f.er + s.er, <<>>)

Close(i) ==
    /\ panic = "none" /\ i \in DOMAIN clients
    /\ LET c == clients[i] IN
       IF c.muted THEN Skipped("Close", i)
       ELSE /\ closeCalls < MaxCloses
            /\ Done(c.conn, CloseConn(conns[c.conn]), "Close", i)
            /\ closeCalls' = closeCalls + 1
            /\ UNCHANGED <<clients, tagHeap, newErr, newOpts, panic>>

(* One wake-up of the periodic flush task of conn k: it flushes, and ends  *)
(* once it finds the conn closed.                                          *)
Tick(k) ==
    /\ panic = "none" /\ k \in DOMAIN conns
    /\ conns[k].ticker
    /\ IF conns[k].closed
       THEN Done(k, Res([conns[k] EXCEPT !.ticker = FALSE], <<>>, 0, <<>>), "Tick", 0)
       ELSE Done(k, connFlush(conns[k]), "Tick", 0)
    /\ UNCHANGED <<clients, tagHeap, closeCalls, newErr, newOpts, panic>>

----------------------------------------------------------------------------
Init ==
    /\ clients = <<>>
    /\ conns = <<>>
    /\ tagHeap = <<>>
    /\ packets = <<>>
    /\ handed = <<>>
    /\ errs = 0
    /\ closeCalls = 0
    /\ newErr = FALSE
    /\ newOpts = <<>>
    /\ panic = "none"
    /\ last = Last("init", FALSE, 0)
    /\ mu = ""
    /\ pc = <<>>

Next ==
    \/ \E opts \in NewOptLists, dialOk \in BOOLEAN : New(opts, dialOk)
    \/ \E i \in DOMAIN clients, opts \in CloneOptLists : Clone(i, opts)
    \/ \E i \in DOMAIN clients, b \in Buckets, n \in Values, t \in MetricTagLists :
          Count(i, b, n, t)
    \/ \E i \in DOMAIN clients, b \in Buckets, t \in MetricTagLists : Increment(i, b, t)
    \/ \E i \in DOMAIN clients, b \in Buckets, n \in Values, t \in MetricTagLists :
          Gauge(i, b, n, t)
    \/ \E i \in DOMAIN clients, b \in Buckets, n \in Values : Timing(i, b, n)
    \/ \E i \in DOMAIN clients, b \in Buckets, n \in Values, t \in MetricTagLists :
          Histogram(i, b, n, t)
    \/ \E i \in DOMAIN clients, b \in Buckets, u \in UniqueValues : Unique(i, b, u)
    \/ \E i \in DOMAIN clients : Flush(i)
    \/ \E i \in DOMAIN clients : Close(i)
    \/ \E k \in DOMAIN conns : Tick(k)

Spec == Init /\ [][Next]_vars

(* The periodic task is a goroutine on a ticker: it keeps being scheduled. *)
FairSpec == Spec /\ WF_vars(\E k \in DOMAIN conns : Tick(k))

----------------------------------------------------------------------------
(* The Tags functions on their own: newTags, Tags.append, Tags.clone and   *)
(* Tags.format called on the Tags objects of tagHeap, with the result of   *)
(* format in handed.                                                       *)

MaxTagSets == 2

TagLists ==
    {<<>>, <<"a", "1">>, <<"a", "2", "b", "3">>, <<"host", "x", "env", "y">>,
     <<"k", "x", "k", "y">>, <<"a">>}

TagFormats == {0, InfluxDB, Datadog, 3}

TagsFrame ==
    UNCHANGED <<clients, conns, packets, errs, closeCalls, newErr, newOpts, panic, mu, pc>>

newTagsCall(tags) ==
    /\ panic = "none" /\ Len(tagHeap) < MaxTagSets
    /\ IF OddTags(tags) THEN Panic("odd number of tags", "newTags", 0)
       ELSE /\ tagHeap' = Append(tagHeap, newTags(tags))
            /\ last' = Last("newTags", FALSE, 0)
            /\ UNCHANGED handed /\ TagsFrame

appendCall(i, j) ==
    /\ panic = "none" /\ i \in DOMAIN tagHeap /\ j \in DOMAIN tagHeap /\ i # j
    /\ tagHeap' = [tagHeap EXCEPT ![i] = TagsAppend(@, tagHeap[j])]
    /\ last' = Last("append", FALSE, 0)
    /\ UNCHANGED handed /\ TagsFrame

cloneCall(i) ==
    /\ panic = "none" /\ i \in DOMAIN tagHeap /\ Len(tagHeap) < MaxTagSets
    /\ tagHeap' = Append(tagHeap, TagsClone(tagHeap[i]))
    /\ last' = Last("clone", FALSE, 0)
    /\ UNCHANGED handed /\ TagsFrame

formatCall(i, tf) ==
    /\ panic = "none" /\ i \in DOMAIN tagHeap
    /\ handed' = <<TagsFormatted(tagHeap[i], tf)>>
    /\ last' = Last("format", FALSE, 0)
    /\ UNCHANGED tagHeap /\ TagsFrame

TagsNext ==
    \/ \E tags \in TagLists : newTagsCall(tags)
    \/ \E i \in DOMAIN tagHeap, j \in DOMAIN tagHeap : appendCall(i, j)
    \/ \E i \in DOMAIN tagHeap : cloneCall(i)
    \/ \E i \in DOMAIN tagHeap, tf \in TagFormats : formatCall(i, tf)

TagsSpec == Init /\ [][TagsNext]_vars

----------------------------------------------------------------------------
(* The facade with tags: New, Clone and the five metrics on clients with   *)
(* a tag format and common tags, the metrics with tags of their own.       *)

MaxTagLines == 1

TaggedNewOptLists ==
    {<<TagsFormat(Datadog)>>,
     <<TagsFormat(Datadog), CommonTags(<<"a", "1">>), CommonTags(<<"a", "2", "b", "3">>)>>,
     <<TagsFormat(InfluxDB), Prefix("q."), CommonTags(<<"k", "v">>)>>,
     <<CommonTags(<<"k", "v">>)>>}

TaggedCloneOptLists ==
    {<<Prefix("q.")>>, <<CommonTags(<<"k", "x", "c", "4">>)>>}

TaggedMetricTags == {<<>>, <<"a", "5">>, <<"b", "7", "a", "5">>, <<"k", "x", "k", "y">>}

TaggedNext ==
    \/ \E opts \in TaggedNewOptLists : New(opts, TRUE)
    \/ \E i \in DOMAIN clients, opts \in TaggedCloneOptLists : Clone(i, opts)
    \/ \E i \in DOMAIN clients, b \in Buckets, n \in Values, t \in TaggedMetricTags :
          Len(handed) < MaxTagLines /\ Count(i, b, n, t)
    \/ \E i \in DOMAIN clients, b \in Buckets, n \in Values, t \in TaggedMetricTags :
          Len(handed) < MaxTagLines /\ Gauge(i, b, n, t)
    \/ \E i \in DOMAIN clients, b \in Buckets, n \in Values :
          Len(handed) < MaxTagLines /\ Timing(i, b, n)
    \/ \E i \in DOMAIN clients, b \in Buckets, n \in Values, t \in TaggedMetricTags :
          Len(handed) < MaxTagLines /\ Histogram(i, b, n, t)
    \/ \E i \in DOMAIN clients, b \in Buckets, u \in UniqueValues :
          Len(handed) < MaxTagLines /\ Unique(i, b, u)

TaggedSpec == Init /\ [][TaggedNext]_vars

----------------------------------------------------------------------------
(* The goroutines: two callers and the periodic flush task share the       *)
(* client New returned; each call is made of its steps: waiting for        *)
(* conn.mu, the work under the lock, the release.  A write to the socket   *)
(* and the close of the socket may fail (ok = FALSE): the daemon is not    *)
(* there, the network is down.  A caller names its lines: the bucket is    *)
(* the caller, the value the number of the call.                           *)

MaxCalls == 2

Callers == {"g1", "g2"}
Goroutines == Callers \cup {"ticker"}

ConcOptLists == {<<MaxPacketSize(14)>>}

(* w.Write(packet) with its outcome.                                       *)
connWriteNet(cn, packet, ok) ==
    IF cn.w = "open" /\ ok THEN Res(cn, <<packet>>, 0, <<>>) ELSE Res(cn, <<>>, 1, <<>>)

(* flush: write the buffer if it is not empty, then clear it; the error of *)
(* the write goes to handleError.                                          *)
connFlushNet(cn, ok) ==
    IF cn.buf = <<>> THEN Res(cn, <<>>, 0, <<>>)
    ELSE LET r == connWriteNet(cn, cn.buf, ok)
         IN Res([cn EXCEPT !.buf = <<>>], r.pk, r.er, <<>>)

(* emit, steps 3 to 5, with the outcome of the writes it makes.            *)
connEmitNet(cn, line, ok) ==
    IF cn.closed THEN Res(cn, <<>>, 0, <<>>)
    ELSE LET over == cn.buf # <<>> /\ Size(cn.buf) + Len(line) + 1 > cn.maxPacketSize
             f == IF over THEN connFlushNet(cn, ok) ELSE Res(cn, <<>>, 0, <<>>)
         IN IF Len(line) + 1 > cn.maxPacketSize
            THEN LET r == connWriteNet(f.cn, <<line>>, ok)
                 IN Res(r.cn, f.pk \o r.pk, f.er + r.er, <<line>>)
            ELSE Res([f.cn EXCEPT !.buf = Append(@, line)], f.pk, f.er, <<line>>)

(* w.Close() with its outcome.                                             *)
sockCloseNet(cn, ok) ==
    IF cn.w = "open" /\ ok THEN Res([cn EXCEPT !.w = "closed"], <<>>, 0, <<>>)
    ELSE Res(cn, <<>>, 1, <<>>)

At(g, at, line, calls) == [pc EXCEPT ![g] = [at |-> at, line |-> line, calls |-> calls]]

ConcFrame == UNCHANGED <<clients, tagHeap, newErr, newOpts, panic, last>>

(* The effect of a step under the lock on the conn and the network.        *)
ConcDone(k, r) ==
    /\ conns' = [conns EXCEPT ![k] = r.cn]
    /\ packets' = packets \o r.pk
    /\ errs' = errs + r.er
    /\ handed' = handed \o r.ln

(* Count up to its call of conn.metric: skip, the tags, the line.          *)
CountCall(g, i) ==
    /\ g \in Callers /\ i \in DOMAIN clients
    /\ pc[g].at = "idle" /\ pc[g].calls < MaxCalls
    /\ LET c == clients[i] IN
       \E r \in Rand(c) :
          pc' = IF skip(c, r) THEN At(g, "idle", "", pc[g].calls + 1)
                ELSE At(g, "metric",
                        Line(conns[c.conn], c.prefix, g, ToString(pc[g].calls + 1), "c", c.rate,
                             MetricTags(c, <<>>)),
                        pc[g].calls + 1)
    /\ UNCHANGED <<conns, packets, handed, errs, closeCalls, mu>> /\ ConcFrame

(* conn.metric: the lock, then the buffering and the release.              *)
metricLock(g) ==
    /\ g \in Callers /\ pc[g].at = "metric" /\ mu = ""
    /\ mu' = g
    /\ pc' = At(g, "metric_locked", pc[g].line, pc[g].calls)
    /\ UNCHANGED <<conns, packets, handed, errs, closeCalls>> /\ ConcFrame

metricBuffer(g, ok) ==
    /\ g \in Callers /\ pc[g].at = "metric_locked"
    /\ ConcDone(1, connEmitNet(conns[1], pc[g].line, ok))
    /\ mu' = ""
    /\ pc' = At(g, "idle", "", pc[g].calls)
    /\ UNCHANGED closeCalls /\ ConcFrame

(* Flush going on without c.conn.mu.Lock().                                *)
FlushWithoutLock(g, i) ==
    /\ g \in Callers /\ i \in DOMAIN clients
    /\ pc[g].at = "idle" /\ pc[g].calls < MaxCalls
    /\ pc' = IF clients[i].muted THEN At(g, "idle", "", pc[g].calls + 1)
             ELSE At(g, "Flush_locked", "", pc[g].calls + 1)
    /\ UNCHANGED <<conns, packets, handed, errs, closeCalls, mu>> /\ ConcFrame

(* Flush: the test of muted and c.conn.mu.Lock().                          *)
FlushLock(g, i) ==
    /\ g \in Callers /\ i \in DOMAIN clients
    /\ pc[g].at = "idle" /\ pc[g].calls < MaxCalls
    /\ IF clients[i].muted
       THEN pc' = At(g, "idle", "", pc[g].calls + 1) /\ UNCHANGED mu
       ELSE mu = "" /\ mu' = g /\ pc' = At(g, "Flush_locked", "", pc[g].calls + 1)
    /\ UNCHANGED <<conns, packets, handed, errs, closeCalls>> /\ ConcFrame

(* Flush: c.conn.flush(0) and c.conn.mu.Unlock().                          *)
FlushFlush(g, ok) ==
    /\ g \in Callers /\ pc[g].at = "Flush_locked"
    /\ ConcDone(1, connFlushNet(conns[1], ok))
    /\ mu' = ""
    /\ pc' = At(g, "idle", "", pc[g].calls)
    /\ UNCHANGED closeCalls /\ ConcFrame

(* Close: the test of muted and c.conn.mu.Lock().                          *)
CloseLock(g, i) ==
    /\ g \in Callers /\ i \in DOMAIN clients
    /\ pc[g].at = "idle" /\ pc[g].calls < MaxCalls
    /\ IF clients[i].muted
       THEN pc' = At(g, "idle", "", pc[g].calls + 1) /\ UNCHANGED mu
       ELSE mu = "" /\ mu' = g /\ pc' = At(g, "Close_locked", "", pc[g].calls + 1)
    /\ UNCHANGED <<conns, packets, handed, errs, closeCalls>> /\ ConcFrame

(* Close releasing the lock after its flush.                               *)
CloseFlushReleases(g, ok) ==
    /\ g \in Callers /\ pc[g].at = "Close_locked"
    /\ ConcDone(1, connFlushNet(conns[1], ok))
    /\ mu' = ""
    /\ pc' = At(g, "Close_flushed", "", pc[g].calls)
    /\ UNCHANGED closeCalls /\ ConcFrame

(* Close: c.conn.flush(0).                                                 *)
CloseFlush(g, ok) ==
    /\ g \in Callers /\ pc[g].at = "Close_locked"
    /\ ConcDone(1, connFlushNet(conns[1], ok))
    /\ pc' = At(g, "Close_flushed", "", pc[g].calls)
    /\ UNCHANGED <<closeCalls, mu>> /\ ConcFrame

(* Close returning on the error of w.Close().                              *)
CloseSockReturnsOnError(g, ok) ==
    /\ g \in Callers /\ pc[g].at = "Close_flushed"
    /\ LET r == sockCloseNet(conns[1], ok) IN
       /\ ConcDone(1, r)
       /\ closeCalls' = closeCalls + 1
       /\ IF r.er > 0
          THEN mu' = "" /\ pc' = At(g, "idle", "", pc[g].calls)
          ELSE mu' = mu /\ pc' = At(g, "Close_released", "", pc[g].calls)
    /\ ConcFrame

(* Close: c.conn.handleError(c.conn.w.Close()).                            *)
CloseSock(g, ok) ==
    /\ g \in Callers /\ pc[g].at = "Close_flushed"
    /\ ConcDone(1, sockCloseNet(conns[1], ok))
    /\ closeCalls' = closeCalls + 1
    /\ pc' = At(g, "Close_released", "", pc[g].calls)
    /\ UNCHANGED mu /\ ConcFrame

(* Close: c.conn.closed = true and c.conn.mu.Unlock().                     *)
CloseMark(g) ==
    /\ g \in Callers /\ pc[g].at = "Close_released"
    /\ ConcDone(1, Res([conns[1] EXCEPT !.closed = TRUE], <<>>, 0, <<>>))
    /\ mu' = ""
    /\ pc' = At(g, "idle", "", pc[g].calls)
    /\ UNCHANGED closeCalls /\ ConcFrame

(* The periodic task: it takes the lock at every tick, flushes and         *)
(* releases; it ends when it finds the conn closed.                        *)
TickLock ==
    /\ conns[1].ticker /\ pc["ticker"].at = "idle" /\ mu = ""
    /\ mu' = "ticker"
    /\ pc' = At("ticker", "Tick_locked", "", 0)
    /\ UNCHANGED <<conns, packets, handed, errs, closeCalls>> /\ ConcFrame

TickFlush(ok) ==
    /\ pc["ticker"].at = "Tick_locked"
    /\ IF conns[1].closed
       THEN ConcDone(1, Res([conns[1] EXCEPT !.ticker = FALSE], <<>>, 0, <<>>))
       ELSE ConcDone(1, connFlushNet(conns[1], ok))
    /\ mu' = ""
    /\ pc' = At("ticker", "idle", "", 0)
    /\ UNCHANGED closeCalls /\ ConcFrame

(* The state New leaves: one client, its conn open, the goroutines idle.   *)
ConcInit ==
    \E opts \in ConcOptLists :
       LET n == NewClient(opts, TRUE) IN
       /\ clients = <<n.client>>
       /\ conns = <<n.conn>>
       /\ tagHeap = n.heap
       /\ packets = <<>>
       /\ handed = <<>>
       /\ errs = 0
       /\ closeCalls = 0
       /\ newErr = n.err
       /\ newOpts = opts
       /\ panic = "none"
       /\ last = Last("New", FALSE, 0)
       /\ mu = ""
       /\ pc = [g \in Goroutines |-> [at |-> "idle", line |-> "", calls |-> 0]]

ConcNext ==
    \/ \E g \in Callers, i \in DOMAIN clients : CountCall(g, i)
    \/ \E g \in Callers : metricLock(g)
    \/ \E g \in Callers, ok \in BOOLEAN : metricBuffer(g, ok)
    \/ \E g \in Callers, i \in DOMAIN clients : FlushLock(g, i)
    \/ \E g \in Callers, ok \in BOOLEAN : FlushFlush(g, ok)
    \/ \E g \in Callers, i \in DOMAIN clients : CloseLock(g, i)
    \/ \E g \in Callers, ok \in BOOLEAN : CloseFlush(g, ok)
    \/ \E g \in Callers, ok \in BOOLEAN : CloseSock(g, ok)
    \/ \E g \in Callers : CloseMark(g)
    \/ TickLock
    \/ \E ok \in BOOLEAN : TickFlush(ok)

ConcSpec == ConcInit /\ [][ConcNext]_vars

----------------------------------------------------------------------------
(* Properties.                                                             *)

EmitOps == {"Count", "Gauge", "Timing", "Histogram", "Unique"}
FlushOps == {"Flush", "Close", "Tick"}

(* Some operation of client i.                                             *)
ClientOp(i) ==
    \/ Flush(i)
    \/ Close(i)
    \/ \E opts \in CloneOptLists : Clone(i, opts)
    \/ \E b \in Buckets, n \in Values, t \in MetricTagLists :
          Count(i, b, n, t) \/ Gauge(i, b, n, t) \/ Histogram(i, b, n, t)
    \/ \E b \in Buckets, n \in Values : Timing(i, b, n)
    \/ \E b \in Buckets, u \in UniqueValues : Unique(i, b, u)

(* C1: once Close has completed on a transport, every later operation on   *)
(* it is a no-op: no packet is written, the socket is neither written nor  *)
(* closed again, no error is reported and nothing panics.                  *)
C1_ClosedIsInert ==
    [][\A k \in DOMAIN conns :
          conns[k].closed =>
             /\ packets' = packets
             /\ closeCalls' = closeCalls
             /\ errs' = errs
             /\ panic' = panic
             /\ conns'[k].w = conns[k].w
             /\ conns'[k].buf = conns[k].buf]_vars

(* C2: a muted client stays muted, and no operation of a muted client      *)
(* writes to the network, touches the transport (buffer, socket, closed    *)
(* flag), closes the socket or reports an error.                           *)
C2_MutedIsInert ==
    [][\A i \in DOMAIN clients :
          clients[i].muted =>
             /\ clients'[i].muted
             /\ ClientOp(i) => UNCHANGED <<conns, packets, handed, errs, closeCalls>>]_vars

(* A muted client called Flush or Close on an open transport whose buffer  *)
(* holds lines, and they are still there.                                  *)
C2_Witness ==
    \E i \in DOMAIN clients :
       /\ clients[i].muted
       /\ conns[clients[i].conn].w = "open"
       /\ conns[clients[i].conn].buf # <<>>
       /\ last.op \in {"Flush", "Close"} /\ last.skipped

(* C3: when New returned an error, there is a client, it and its clones    *)
(* are muted, nothing was written and nothing panicked.                    *)
C3_FailedNewIsUsable ==
    newErr =>
       /\ Len(clients) >= 1
       /\ \A i \in DOMAIN clients : clients[i].muted
       /\ packets = <<>>
       /\ panic = "none"

(* The configuration the caller of New asked for.                          *)
RECURSIVE ReqOpt(_, _, _, _)
ReqOpt(opts, kind, i, d) ==
    IF i > Len(opts) THEN d
    ELSE ReqOpt(opts, kind, i + 1, IF opts[i].kind = kind THEN opts[i].n ELSE d)

ReqMaxPacketSize == ReqOpt(newOpts, "MaxPacketSize", 1, DefaultMaxPacketSize)
ReqFlushPeriod == ReqOpt(newOpts, "FlushPeriod", 1, DefaultFlushPeriod)

(* C4: on an open transport an emission whose line fits behind the        *)
(* buffered lines writes nothing and appends its line to the buffer, and a *)
(* flush (Flush, Close or a tick) of a non-empty buffer writes exactly one *)
(* packet, the buffered lines in call order.  So when all the lines handed *)
(* over so far fit in one packet and none was written yet, the flush       *)
(* writes the one packet made of all of them, in call order.               *)
C4_OnePacketInOrder ==
    [][\A k \in DOMAIN conns :
          ~conns[k].closed =>
             LET buf == conns[k].buf
                 flush == handed' = handed /\ last'.op \in FlushOps /\ ~last'.skipped
             IN /\ (handed' # handed
                    /\ Size(buf) + Len(handed'[Len(handed')]) + 1 <= ReqMaxPacketSize) =>
                      /\ packets' = packets
                      /\ conns'[k].buf = Append(buf, handed'[Len(handed')])
                /\ (flush /\ buf # <<>>) =>
                      (packets' = Append(packets, buf) /\ conns'[k].buf = <<>>)
                /\ (flush /\ packets = <<>> /\ handed # <<>>
                    /\ Size(handed) <= ReqMaxPacketSize) =>
                      packets' = <<handed>>]_vars

(* Two or more lines that fit together were flushed as the one packet.     *)
C4_Witness ==
    /\ Len(handed) >= 2 /\ Size(handed) <= ReqMaxPacketSize
    /\ packets = <<handed>>
    /\ last.op \in FlushOps /\ last.wrote = 1

(* C5: an emission whose line does not fit behind the lines already in the *)
(* buffer writes the buffer as one packet first; the new line then is the  *)
(* only line of the buffer, or, when it alone exceeds the maximum, goes    *)
(* out as a second packet of its own.                                      *)
C5_OverflowFlushesOnce ==
    [][\A k \in DOMAIN conns :
          (handed' # handed /\ conns[k].buf # <<>>) =>
             LET line == handed'[Len(handed')] IN
             Size(conns[k].buf) + Len(line) + 1 > ReqMaxPacketSize =>
                IF Len(line) + 1 > ReqMaxPacketSize
                THEN /\ packets' = packets \o <<conns[k].buf, <<line>>>>
                     /\ conns'[k].buf = <<>>
                ELSE /\ packets' = Append(packets, conns[k].buf)
                     /\ conns'[k].buf = <<line>>]_vars

(* An emission overflowed a buffer of two lines: they went out as one      *)
(* packet and the new line is alone in the buffer.                         *)
C5_Witness ==
    /\ last.op \in EmitOps /\ last.wrote = 1
    /\ packets # <<>> /\ Len(packets[Len(packets)]) = 2
    /\ \E k \in DOMAIN conns : Len(conns[k].buf) = 1

(* C6: the buffer holds whole lines (the last lines handed over), never    *)
(* more bytes than the configured maximum packet size, and a packet is     *)
(* larger than the maximum only if it is one single line.                  *)
C6_BufferBounded ==
    \A k \in DOMAIN conns :
       LET buf == conns[k].buf IN
       /\ Size(buf) <= ReqMaxPacketSize
       /\ Len(buf) <= Len(handed)
       /\ buf = SubSeq(handed, Len(handed) - Len(buf) + 1, Len(handed))
       /\ \A j \in DOMAIN packets :
             Size(packets[j]) <= ReqMaxPacketSize \/ Len(packets[j]) = 1

(* A line larger than the maximum went out alone, and the buffer holds a   *)
(* line.                                                                   *)
C6_Witness ==
    /\ \E j \in DOMAIN packets : Size(packets[j]) > ReqMaxPacketSize
    /\ \E k \in DOMAIN conns : conns[k].buf # <<>>

(* C7: with flush period 0 there is no periodic task, and a packet is      *)
(* written only by Flush, by Close, or by an emission whose line does not  *)
(* fit in the buffer.                                                      *)
C7_NoTimerNoWrite ==
    [][ReqFlushPeriod = 0 =>
          /\ \A k \in DOMAIN conns' : ~conns'[k].ticker
          /\ last'.op # "Tick"
          /\ packets' # packets =>
                \/ last'.op \in {"Flush", "Close"}
                \/ /\ last'.op \in EmitOps /\ handed' # handed
                   /\ \E k \in DOMAIN conns :
                         Size(conns[k].buf) + Len(handed'[Len(handed')]) + 1
                            > ReqMaxPacketSize]_vars

(* Without a periodic task an emission overflowed the buffer and wrote.    *)
C7_Witness ==
    /\ ReqFlushPeriod = 0
    /\ last.op \in EmitOps /\ last.wrote >= 1
    /\ \E k \in DOMAIN conns : conns[k].w = "open" /\ conns[k].buf # <<>>

(* C8: a tick on an open transport leaves the buffer empty, having written *)
(* its content as one packet; and with a flush period > 0 and the task     *)
(* scheduled fairly, a non-empty buffer always gets written.               *)
C8_TickFlushes ==
    /\ [][\A k \in DOMAIN conns :
             (last'.op = "Tick" /\ ~conns[k].closed) =>
                /\ conns'[k].buf = <<>>
                /\ packets' = IF conns[k].buf = <<>> THEN packets
                              ELSE Append(packets, conns[k].buf)]_vars
    /\ (ReqFlushPeriod > 0 /\ \E k \in DOMAIN conns : conns[k].buf # <<>>)
          ~> (\A k \in DOMAIN conns : conns[k].buf = <<>>)

(* A tick wrote the buffered lines.                                        *)
C8_Witness ==
    /\ ReqFlushPeriod > 0
    /\ last.op = "Tick" /\ last.wrote = 1
    /\ packets # <<>> /\ packets[Len(packets)] # <<>>

(* C9: a flush (Flush, Close or a tick) that finds the buffer empty writes *)
(* nothing and leaves it empty; so of two flushes in a row the second      *)
(* writes nothing.                                                         *)
C9_EmptyFlushWritesNothing ==
    [][\A k \in DOMAIN conns :
          (last'.op \in FlushOps /\ ~last'.skipped) =>
             /\ conns[k].buf = <<>> => (packets' = packets /\ conns'[k].buf = <<>>)
             /\ (last.op \in FlushOps /\ ~last.skipped) => packets' = packets]_vars

(* A flush wrote one packet and a later flush of the empty buffer none.    *)
C9_Witness ==
    /\ last.op \in FlushOps /\ ~last.skipped /\ last.wrote = 0
    /\ Len(packets) = 1
    /\ \E k \in DOMAIN conns : conns[k].w = "open" /\ conns[k].buf = <<>>

(* C10: every client refers to the one transport New created; Clone        *)
(* leaves it as it is, whatever its options; its configuration never       *)
(* changes; and only a Close by a non-muted client closes it.              *)
C10_OneTransport ==
    [][/\ Len(conns') <= 1
       /\ \A i \in DOMAIN clients' : clients'[i].conn = 1
       /\ last'.op = "Clone" => conns' = conns
       /\ \A k \in DOMAIN conns :
             /\ conns'[k].maxPacketSize = conns[k].maxPacketSize
             /\ conns'[k].flushPeriod = conns[k].flushPeriod
             /\ conns'[k].tagFormat = conns[k].tagFormat
             /\ conns'[k].addr = conns[k].addr
             /\ conns'[k].network = conns[k].network
             /\ conns'[k].errorHandler = conns[k].errorHandler
             /\ (conns'[k].closed # conns[k].closed \/ conns'[k].w # conns[k].w) =>
                   (last'.op = "Close" /\ ~last'.skipped /\ conns'[k].closed)]_vars

(* A clone of a clone (its prefix was extended twice) shares the transport *)
(* a Close has closed.                                                     *)
C10_Witness ==
    /\ last.op = "Close" /\ ~last.skipped
    /\ \E i \in DOMAIN clients :
          clients[i].prefix = "q.q." /\ clients[i].conn = 1 /\ conns[1].closed

(* What the Mute options of a list ask for: the last one given, FALSE when *)
(* there is none.                                                          *)
RECURSIVE ReqMute(_, _, _)
ReqMute(opts, i, d) ==
    IF i > Len(opts) THEN d
    ELSE ReqMute(opts, i + 1, IF opts[i].kind = "Mute" THEN opts[i].b ELSE d)

(* C11: the clone Clone(opts) of client i is muted exactly when client i   *)
(* is muted or opts ask for Mute(true); so no option gives a non-muted     *)
(* clone of a muted client; and Clone leaves the muted flag of every       *)
(* existing client, its parent included, as it was.                        *)
C11_MuteOnlyWidens ==
    [][\A i \in DOMAIN clients, opts \in CloneOptLists :
          (last'.op = "Clone" /\ Len(clients') > Len(clients) /\ Clone(i, opts)) =>
             /\ clients'[Len(clients')].muted = (clients[i].muted \/ ReqMute(opts, 1, FALSE))
             /\ clients[i].muted => clients'[Len(clients')].muted
             /\ \A j \in DOMAIN clients : clients'[j].muted = clients[j].muted]_vars

(* The client of New is not muted, its clone was muted by Mute(true) and   *)
(* the clone of that clone, which took a prefix and no Mute option, is     *)
(* muted too.                                                              *)
C11_Witness ==
    /\ last.op = "Clone" /\ Len(clients) = 3
    /\ ~clients[1].muted
    /\ clients[2].muted /\ clients[2].prefix = ""
    /\ clients[3].muted /\ clients[3].prefix = "q."

(* The keys of a key sequence that are not in have, each once, in the      *)
(* order of their first places.                                            *)
RECURSIVE FreshKeys(_, _, _)
FreshKeys(keys, have, i) ==
    IF i > Len(keys) THEN <<>>
    ELSE IF keys[i] \in have THEN FreshKeys(keys, have, i + 1)
    ELSE <<keys[i]>> \o FreshKeys(keys, have \cup {keys[i]}, i + 1)

(* C12: this.append(that) leaves this with its keys in their order and     *)
(* their values, followed by the keys of that it did not have, in the      *)
(* order they have in that and with the values of that; that is not        *)
(* modified.                                                               *)
C12_AppendMerges ==
    [][\A i \in DOMAIN tagHeap, j \in DOMAIN tagHeap :
          (last'.op = "append" /\ appendCall(i, j)) =>
             LET this == tagHeap[i]
                 that == tagHeap[j]
                 res == tagHeap'[i]
                 fresh == FreshKeys(that.keys, DOMAIN this.kvs, 1)
             IN /\ res.keys = this.keys \o fresh
                /\ DOMAIN res.kvs = DOMAIN this.kvs \cup DOMAIN that.kvs
                /\ \A k \in DOMAIN this.kvs : res.kvs[k] = this.kvs[k]
                /\ \A n \in DOMAIN fresh : res.kvs[fresh[n]] = that.kvs[fresh[n]]
                /\ tagHeap'[j] = that]_vars

(* {a:1}.append({a:2, b:3}) gave {a:1, b:3} with the keys a, b, and left   *)
(* {a:2, b:3} as it was.                                                   *)
C12_Witness ==
    /\ last.op = "append"
    /\ \E i \in DOMAIN tagHeap, j \in DOMAIN tagHeap :
          /\ tagHeap[i].keys = <<"a", "b">>
          /\ tagHeap[i].kvs["a"] = "1" /\ tagHeap[i].kvs["b"] = "3"
          /\ tagHeap[j].keys = <<"a", "b">>
          /\ tagHeap[j].kvs["a"] = "2" /\ tagHeap[j].kvs["b"] = "3"

(* The strings of a sequence one after the other, sep between two of them. *)
RECURSIVE Join(_, _)
Join(strs, sep) ==
    IF strs = <<>> THEN ""
    ELSE IF Len(strs) = 1 THEN strs[1]
    ELSE strs[1] \o sep \o Join(Tail(strs), sep)

(* The tags of a Tags object as texts key<eq>value, in insertion order.    *)
Pairs(t, eq) == [n \in DOMAIN t.keys |-> t.keys[n] \o eq \o t.kvs[t.keys[n]]]

(* C14: format gives ",k1=v1,...,kn=vn" for InfluxDB and                   *)
(* "|#k1:v1,...,kn:vn", without a separator at the end, for Datadog, the   *)
(* keys in insertion order; it gives "" for a Tags without tags, and for   *)
(* every Tags when the format is none or unknown.  So {host:x, env:y}      *)
(* gives ",host=x,env=y" and "|#host:x,env:y".                             *)
C14_FormatDialects ==
    [][\A i \in DOMAIN tagHeap, tf \in TagFormats :
          (last'.op = "format" /\ formatCall(i, tf)) =>
             LET t == tagHeap[i]
                 out == handed'[1]
             IN /\ Len(handed') = 1
                /\ t.keys = <<>> => out = ""
                /\ tf \notin {InfluxDB, Datadog} => out = ""
                /\ (t.keys # <<>> /\ tf = InfluxDB) => out = "," \o Join(Pairs(t, "="), ",")
                /\ (t.keys # <<>> /\ tf = Datadog) => out = "|#" \o Join(Pairs(t, ":"), ",")
                /\ (t.keys = <<"host", "env">> /\ tf = InfluxDB) => out = ",host=x,env=y"
                /\ (t.keys = <<"host", "env">> /\ tf = Datadog) => out = "|#host:x,env:y"]_vars

(* format gave "|#a:1,b:3" for {a:1, b:3}, the result of an append.        *)
C14_Witness ==
    /\ last.op = "format" /\ handed = <<"|#a:1,b:3">>
    /\ \E i \in DOMAIN tagHeap : tagHeap[i].keys = <<"a", "b">> /\ tagHeap[i].kvs["a"] = "1"

(* C18: every Tags object is an ordered set of unique keys: no key is      *)
(* twice in keys, and keys holds exactly the keys of the map kvs.          *)
C18_UniqueKeys ==
    \A i \in DOMAIN tagHeap :
       LET t == tagHeap[i] IN
       /\ \A a \in DOMAIN t.keys, b \in DOMAIN t.keys : t.keys[a] = t.keys[b] => a = b
       /\ {t.keys[a] : a \in DOMAIN t.keys} = DOMAIN t.kvs

(* C19: Clone leaves every existing client, its parent included, as it     *)
(* was: its prefix, rate, muted flag, and the Tags object its tags field   *)
(* points to.                                                              *)
C19_CloneLeavesParent ==
    [][(last'.op = "Clone" /\ Len(clients') > Len(clients)) =>
          \A j \in DOMAIN clients :
             /\ clients'[j] = clients[j]
             /\ clients[j].tags # NilTags =>
                   tagHeap'[clients[j].tags] = tagHeap[clients[j].tags]]_vars

(* The strings given to the CommonTags options of a list, in order.        *)
RECURSIVE GivenTags(_, _)
GivenTags(opts, i) ==
    IF i > Len(opts) THEN <<>>
    ELSE (IF opts[i].kind = "CommonTags" THEN opts[i].t ELSE <<>>) \o GivenTags(opts, i + 1)

(* Every key given has, in the Tags t, the value given with it last.       *)
HasGiven(given, t) ==
    \A m \in 1..(Len(given) \div 2) :
       LET key == given[2 * m - 1]
           lastPlace == CHOOSE x \in 1..(Len(given) \div 2) :
                           /\ given[2 * x - 1] = key
                           /\ \A y \in 1..(Len(given) \div 2) : given[2 * y - 1] = key => y <= x
       IN key \in DOMAIN t.kvs /\ t.kvs[key] = given[2 * lastPlace]

(* C13: after the CommonTags options of New or Clone, the common tags of   *)
(* the client made have every given key with the given value, also when    *)
(* the key was there before (from the parent, or from an earlier           *)
(* CommonTags option): the new value replaces the old one.                 *)
C13_CommonTagsReplaces ==
    [][/\ (last'.op = "New" /\ Len(clients') = 1 /\ clients'[1].tags # NilTags) =>
             HasGiven(GivenTags(newOpts', 1), tagHeap'[clients'[1].tags])
       /\ \A i \in DOMAIN clients, opts \in TaggedCloneOptLists :
             (last'.op = "Clone" /\ Len(clients') > Len(clients) /\ Clone(i, opts)) =>
                HasGiven(GivenTags(opts, 1), tagHeap'[clients'[Len(clients')].tags])]_vars

(* The key/value pairs of a list of strings, in argument order.            *)
ArgPairs(tags) == [m \in 1..(Len(tags) \div 2) |-> <<tags[2 * m - 1], tags[2 * m]>>]

(* The pairs of a Tags object whose keys are not in have, in its order.    *)
RECURSIVE OtherPairs(_, _, _)
OtherPairs(t, have, i) ==
    IF i > Len(t.keys) THEN <<>>
    ELSE (IF t.keys[i] \in have THEN <<>> ELSE <<<<t.keys[i], t.kvs[t.keys[i]]>>>>)
         \o OtherPairs(t, have, i + 1)

(* A sequence of pairs in a tag format.                                    *)
PairsFormat(pairs, tf) ==
    IF pairs = <<>> THEN ""
    ELSE IF tf = InfluxDB
    THEN "," \o Join([m \in DOMAIN pairs |-> pairs[m][1] \o "=" \o pairs[m][2]], ",")
    ELSE IF tf = Datadog
    THEN "|#" \o Join([m \in DOMAIN pairs |-> pairs[m][1] \o ":" \o pairs[m][2]], ",")
    ELSE ""

(* The tags a metric with the tags metricTags is to carry on client c.     *)
ExpectedSuffix(c, metricTags) ==
    LET own == ArgPairs(metricTags)
    IN PairsFormat(own \o OtherPairs(tagHeap[c.tags], {own[m][1] : m \in DOMAIN own}, 1),
                   c.tagFormat)

(* One line was handed to the transport, the client's tags are as before.  *)
OneEmission(line) ==
    /\ handed' = Append(handed, line)
    /\ tagHeap' = tagHeap
    /\ clients' = clients

(* C20: a Count, Gauge or Histogram that is not skipped hands one line to  *)
(* the transport; its tags are the metric's own tags in argument order,    *)
(* then the client's common tags whose keys the metric does not have; the  *)
(* client's common tags stay as they are.  Timing and Unique hand over the *)
(* common tags.                                                            *)
C20_MetricTagsFirst ==
    [][\A i \in DOMAIN clients, b \in Buckets :
          LET c == clients[i]
              cn == conns[c.conn]
              sent == handed' # handed \/ conns' # conns
          IN /\ \A n \in Values, t \in TaggedMetricTags :
                   /\ (sent /\ Count(i, b, n, t)) =>
                         OneEmission(Line(cn, c.prefix, b, ToString(n), "c", c.rate,
                                          ExpectedSuffix(c, t)))
                   /\ (sent /\ Gauge(i, b, n, t)) =>
                         OneEmission(Line(cn, c.prefix, b, ToString(n), "g", DefaultRate,
                                          ExpectedSuffix(c, t)))
                   /\ (sent /\ Histogram(i, b, n, t)) =>
                         OneEmission(Line(cn, c.prefix, b, ToString(n), "h", c.rate,
                                          ExpectedSuffix(c, t)))
                   /\ (sent /\ Timing(i, b, n)) =>
                         OneEmission(Line(cn, c.prefix, b, ToString(n), "ms", c.rate,
                                          ExpectedSuffix(c, <<>>)))
             /\ \A u \in UniqueValues :
                   (sent /\ Unique(i, b, u)) =>
                      OneEmission(Line(cn, c.prefix, b, u, "s", DefaultRate,
                                       ExpectedSuffix(c, <<>>)))]_vars

(* The lines of a sequence of packets, in order.                           *)
RECURSIVE Flatten(_)
Flatten(pks) == IF pks = <<>> THEN <<>> ELSE Head(pks) \o Flatten(Tail(pks))

(* The lines written to the socket, then the lines waiting in the buffer.  *)
Wire == Flatten(packets) \o conns[1].buf

(* Goroutine g took a step from the place at.                              *)
StepFrom(g, at) == pc[g].at = at /\ pc'[g] # pc[g]

InClose(g) == pc[g].at \in {"Close_locked", "Close_flushed", "Close_released"}

HoldsLock(g) ==
    \/ InClose(g)
    \/ pc[g].at \in {"metric_locked", "Flush_locked", "Tick_locked"}

(* C15: Close holds conn.mu from its flush to its setting of closed, and   *)
(* does, in this order: the flush of the buffer, the close of the socket,  *)
(* closed = true.  While a goroutine is in Close no other goroutine        *)
(* changes the buffer, writes a packet or hands a line over; the socket is *)
(* closed on an empty buffer, all the lines handed over before having      *)
(* been written (when no write failed).                                    *)
C15_CloseIsAtomic ==
    [][\A g \in Callers :
          /\ InClose(g) =>
                /\ mu = g
                /\ (conns' # conns \/ packets' # packets \/ handed' # handed \/ errs' # errs)
                      => pc'[g] # pc[g]
          /\ StepFrom(g, "Close_locked") =>
                /\ pc'[g].at = "Close_flushed"
                /\ conns'[1].buf = <<>>
                /\ conns'[1].w = conns[1].w /\ conns'[1].closed = conns[1].closed
                /\ closeCalls' = closeCalls
          /\ StepFrom(g, "Close_flushed") =>
                /\ pc'[g].at = "Close_released"
                /\ conns[1].buf = <<>> /\ conns'[1].buf = <<>>
                /\ errs = 0 => Flatten(packets) = handed
                /\ closeCalls' = closeCalls + 1
                /\ conns'[1].closed = conns[1].closed
                /\ packets' = packets
          /\ StepFrom(g, "Close_released") =>
                /\ conns'[1].closed /\ mu' = ""
                /\ conns'[1].w = conns[1].w /\ closeCalls' = closeCalls
                /\ packets' = packets]_vars

(* Close has flushed the lines of both callers and closed the socket, and  *)
(* has not set closed yet; the other caller waits for the lock with its    *)
(* next line.                                                              *)
C15_Witness ==
    \E g \in Callers, h \in Callers :
       /\ pc[g].at = "Close_released" /\ pc[h].at = "metric"
       /\ conns[1].w = "closed" /\ ~conns[1].closed
       /\ Len(handed) = 2 /\ packets = <<handed>>

(* The place of a line in a sequence of lines.                             *)
Place(lines, line) == CHOOSE p \in DOMAIN lines : lines[p] = line

(* The line of the n-th call of caller g.                                  *)
LineOf(g, n) ==
    Line(conns[1], clients[1].prefix, g, ToString(n), "c", clients[1].rate,
         MetricTags(clients[1], <<>>))

(* C16: the buffer, the closed flag and the socket are touched only by the *)
(* goroutine that holds conn.mu, and one goroutine at most is between its  *)
(* Lock and its Unlock; the lines are on the wire (the packets written,    *)
(* then the buffer) in the order they were handed over under the lock, so  *)
(* those of one caller are in the order of its calls.                      *)
C16_OneLock ==
    /\ [](\A g \in DOMAIN pc : HoldsLock(g) <=> mu = g)
    /\ [][(conns' # conns \/ packets' # packets \/ handed' # handed \/ errs' # errs
           \/ closeCalls' # closeCalls) =>
             (mu \in DOMAIN pc /\ HoldsLock(mu) /\ pc'[mu] # pc[mu])]_vars
    /\ [](\A p \in DOMAIN Wire, q \in DOMAIN Wire :
             p < q =>
                /\ Wire[p] # Wire[q]
                /\ \E x \in DOMAIN handed, y \in DOMAIN handed :
                      x < y /\ handed[x] = Wire[p] /\ handed[y] = Wire[q]
                /\ \A g \in Callers, a \in 1..MaxCalls, b \in 1..MaxCalls :
                      (Wire[p] = LineOf(g, a) /\ Wire[q] = LineOf(g, b)) => a < b)
    /\ [](errs = 0 => Wire = handed)

(* Both callers made their two calls of Count; a line overflowed the       *)
(* buffer, so the lines are in two packets and the buffer, in the order    *)
(* handed over, and a caller waits for the lock the periodic task holds.   *)
C16_Witness ==
    /\ Len(handed) = 3 /\ Len(packets) = 1 /\ Len(conns[1].buf) = 1
    /\ mu = "ticker"
    /\ \E g \in Callers : pc[g].at = "metric" /\ pc[g].calls = 2

(* C17: a write that fails is reported to the error handler once and its   *)
(* lines are dropped: the buffer is cleared all the same and no line that  *)
(* left the buffer unwritten is written later; a close of the socket that  *)
(* fails is reported once and Close goes on to set closed; no step panics, *)
(* and every call goes on to its end.                                      *)
C17_ErrorsToHandler ==
    [][/\ panic' = "none"
       /\ \A g \in DOMAIN pc :
             /\ ((StepFrom(g, "Flush_locked") \/ StepFrom(g, "Close_locked")
                  \/ (StepFrom(g, "Tick_locked") /\ ~conns[1].closed))) =>
                   LET buf == conns[1].buf IN
                   /\ conns'[1].buf = <<>>
                   /\ buf = <<>> => (packets' = packets /\ errs' = errs)
                   /\ buf # <<>> => \/ packets' = Append(packets, buf) /\ errs' = errs
                                    \/ packets' = packets /\ errs' = errs + 1
             /\ StepFrom(g, "metric_locked") =>
                   LET buf == conns[1].buf
                       line == pc[g].line
                   IN /\ pc'[g].at = "idle"
                      /\ IF conns[1].closed
                         THEN conns' = conns /\ packets' = packets /\ errs' = errs
                         ELSE IF buf = <<>> \/ Size(buf) + Len(line) + 1 <= ReqMaxPacketSize
                         THEN /\ conns'[1].buf = Append(buf, line)
                              /\ packets' = packets /\ errs' = errs
                         ELSE /\ conns'[1].buf = <<line>>
                              /\ \/ packets' = Append(packets, buf) /\ errs' = errs
                                 \/ packets' = packets /\ errs' = errs + 1
             /\ StepFrom(g, "Flush_locked") => pc'[g].at = "idle"
             /\ StepFrom(g, "Close_locked") => pc'[g].at = "Close_flushed"
             /\ StepFrom(g, "Close_flushed") =>
                   /\ pc'[g].at = "Close_released"
                   /\ \/ errs' = errs /\ conns'[1].w = "closed"
                      \/ errs' = errs + 1 /\ conns'[1].w = conns[1].w
             /\ StepFrom(g, "Close_released") =>
                   (pc'[g].at = "idle" /\ conns'[1].closed /\ errs' = errs)
       /\ \A x \in DOMAIN handed :
             (\A p \in DOMAIN Wire : Wire[p] # handed[x]) =>
                (\A p \in DOMAIN Wire' : Wire'[p] # handed[x])]_vars

(* A write failed and the close of the socket failed: both errors went to  *)
(* the handler, the line of the failed write is gone, the conn is closed   *)
(* and the callers are back from their calls.                              *)
C17_Witness ==
    /\ errs = 2 /\ closeCalls = 1
    /\ conns[1].closed /\ conns[1].w = "open" /\ conns[1].buf = <<>>
    /\ Len(handed) = 1 /\ packets = <<>>
    /\ \A g \in Callers : pc[g].at = "idle"

====
